---- MODULE Spec2Model ----
(***************************************************************************)
(* Model of the native shell of ando-archive: the setup closure of run()    *)
(* (src-tauri/src/lib.rs), the menu built by create_app_menu and the        *)
(* dispatch done by handle_menu_event (src-tauri/src/menu.rs).              *)
(***************************************************************************)
EXTENDS Naturals, Sequences, FiniteSets, TLC

(* Number of menu selections one behaviour delivers to on_menu_event. *)
MaxCalls == 2

(* Option::None for an absent accelerator, and the absence of a failure. *)
None == "<None>"

(* Option of a structured value: the empty sequence is None, <<x>> is Some(x). *)
Nothing == << >>
Some(x) == << x >>

(* The unit value (), the payload of every emit. *)
Unit == << >>

(* LogicalSize::new(800.0, 600.0) *)
MinWidth == 800
MinHeight == 600

(* Identifiers the runtime can hand to the callback although the code never
   matches them: a made-up one, the empty string, a platform-injected one. *)
ForeignIds == {"not_a_real_id", "", "services"}

(* Event names a front-end subscriber may be listening on. *)
Subscribable == {"menu_search", "menu_new_document"}

----------------------------------------------------------------------------
(* State                                                                    *)

VARIABLES
    pc,            \* position of the process: setup steps, running, ended
    debug,         \* cfg!(debug_assertions)
    hasMainWindow, \* whether get_webview_window("main") is Some
    listening,     \* event names the front-end subscriber listens on
    g,             \* create_app_menu: index of the submenu being built
    e,             \* create_app_menu: index of its next builder call
    cur,           \* create_app_menu: entries of the submenu under construction
    subs,          \* create_app_menu: submenus built so far
    menu,          \* the value create_app_menu returned, or None
    failedAt,      \* the setup step whose error was propagated, or None
    setMenuCalls,  \* number of app.set_menu calls
    installed,     \* the menu the runtime holds as the application menu
    minSizeCalls,  \* the sizes passed to window.set_min_size
    windowMinSize, \* the minimum size the main window enforces
    calls,         \* the handle_menu_event calls made, oldest first
    exitRequests,  \* the status codes passed to app.exit
    received       \* the events delivered to the subscriber

vars == << pc, debug, hasMainWindow, listening, g, e, cur, subs, menu,
           failedAt, setMenuCalls, installed, minSizeCalls, windowMinSize,
           calls, exitRequests, received >>

env == << debug, hasMainWindow, listening >>
builder == << g, e, cur, subs >>
runtime == << calls, exitRequests, received >>
window == << minSizeCalls, windowMinSize >>

----------------------------------------------------------------------------
(* Menu construction                                                        *)

(* MenuItemBuilder::new(label).id(id).accelerator(acc) *)
Item(label, id, acc) ==
    [kind |-> "item", label |-> label, id |-> id, accelerator |-> acc]

(* SubmenuBuilder::separator() *)
Separator == [kind |-> "separator"]

(* A variant of the layout in which View still carries the search item. *)
MenuLayoutDupSearch ==
    << [label |-> "Documents", entries |-> <<
            Item("New Document", "new_document", "CmdOrCtrl+N"),
            Separator,
            Item("Search Documents", "search", "CmdOrCtrl+F") >>],
       [label |-> "Categories", entries |-> <<
            Item("New Category", "new_category", "CmdOrCtrl+Shift+N"),
            Item("Manage Categories", "manage_categories", "CmdOrCtrl+Shift+M") >>],
       [label |-> "File", entries |-> <<
            Item("Export Archive", "export_archive", "CmdOrCtrl+E"),
            Item("Import Archive", "import_archive", "CmdOrCtrl+I"),
            Separator,
            Item("Settings", "settings", None),
            Separator,
            Item("Quit", "quit", None) >>],
       [label |-> "Edit", entries |-> <<
            Item("Undo", "undo", "CmdOrCtrl+Z"),
            Item("Redo", "redo", "CmdOrCtrl+Shift+Z"),
            Separator,
            Item("Cut", "cut", "CmdOrCtrl+X"),
            Item("Copy", "copy", "CmdOrCtrl+C"),
            Item("Paste", "paste", "CmdOrCtrl+V") >>],
       [label |-> "View", entries |-> <<
            Item("Toggle Sidebar", "toggle_sidebar", "CmdOrCtrl+B"),
            Separator,
            Item("Search", "search", "CmdOrCtrl+F"),
            Item("Reload", "reload", "CmdOrCtrl+R") >>],
       [label |-> "Help", entries |-> <<
            Item("About Ando Archive", "about", None) >>] >>

(* The builder calls of create_app_menu, in source order: six submenus, each
   with its items and separators. *)
MenuLayout ==
    << [label |-> "Documents", entries |-> <<
            Item("New Document", "new_document", "CmdOrCtrl+N"),
            Separator,
            Item("Search Documents", "search", "CmdOrCtrl+F") >>],
       [label |-> "Categories", entries |-> <<
            Item("New Category", "new_category", "CmdOrCtrl+Shift+N"),
            Item("Manage Categories", "manage_categories", "CmdOrCtrl+Shift+M") >>],
       [label |-> "File", entries |-> <<
            Item("Export Archive", "export_archive", "CmdOrCtrl+E"),
            Item("Import Archive", "import_archive", "CmdOrCtrl+I"),
            Separator,
            Item("Settings", "settings", None),
            Separator,
            Item("Quit", "quit", None) >>],
       [label |-> "Edit", entries |-> <<
            Item("Undo", "undo", "CmdOrCtrl+Z"),
            Item("Redo", "redo", "CmdOrCtrl+Shift+Z"),
            Separator,
            Item("Cut", "cut", "CmdOrCtrl+X"),
            Item("Copy", "copy", "CmdOrCtrl+C"),
            Item("Paste", "paste", "CmdOrCtrl+V") >>],
       [label |-> "View", entries |-> <<
            Item("Toggle Sidebar", "toggle_sidebar", "CmdOrCtrl+B"),
            Separator,
            Item("Reload", "reload", "CmdOrCtrl+R") >>],
       [label |-> "Help", entries |-> <<
            Item("About Ando Archive", "about", None) >>] >>

(* The actionable items of a built tree, group by group, in order. *)
RECURSIVE ActionableItems(_)
ActionableItems(tree) ==
    IF tree = << >> THEN << >>
    ELSE SelectSeq(Head(tree).items, LAMBDA it : it.kind = "item")
            \o ActionableItems(Tail(tree))

(* The identifiers of the actionable items of a built tree. *)
ActionableIds(tree) ==
    { ActionableItems(tree)[i].id : i \in 1..Len(ActionableItems(tree)) }

----------------------------------------------------------------------------
(* Dispatch                                                                 *)

(* app.emit(name, ()) *)
Emit(name) == [kind |-> "emit", name |-> name, payload |-> Unit]

(* app.exit(code) *)
Exit(code) == [kind |-> "exit", code |-> code]

(* Variants of the handler, each with one arm changed. *)
EmitArmIds ==
    {"new_document", "search", "new_category", "manage_categories",
     "export_archive", "import_archive", "settings", "toggle_sidebar",
     "reload", "about"}

handle_menu_event_QuitAlsoEmits(event) ==
    IF event = "quit" THEN << Emit("menu_quit"), Exit(0) >>
    ELSE IF event \in EmitArmIds THEN << Emit("menu_" \o event) >>
    ELSE << >>

handle_menu_event_DefaultEmits(event) ==
    IF event = "quit" THEN << Exit(0) >>
    ELSE << Emit("menu_" \o event) >>

handle_menu_event_SettingsRenamed(event) ==
    IF event = "quit" THEN << Exit(0) >>
    ELSE IF event = "settings" THEN << Emit("menu_preferences") >>
    ELSE IF event \in EmitArmIds THEN << Emit("menu_" \o event) >>
    ELSE << >>

handle_menu_event_OncePerId(event) ==
    IF event = "quit" THEN << Exit(0) >>
    ELSE IF event \in EmitArmIds /\ \A i \in 1..Len(calls) : calls[i].id # event
         THEN << Emit("menu_" \o event) >>
    ELSE << >>

(* The calls the matching arm of handle_menu_event makes on the app handle,
   in order; the default arm makes none. *)
handle_menu_event(event) ==
    CASE event = "new_document"      -> << Emit("menu_new_document") >>
      [] event = "search"            -> << Emit("menu_search") >>
      [] event = "new_category"      -> << Emit("menu_new_category") >>
      [] event = "manage_categories" -> << Emit("menu_manage_categories") >>
      [] event = "export_archive"    -> << Emit("menu_export_archive") >>
      [] event = "import_archive"    -> << Emit("menu_import_archive") >>
      [] event = "settings"          -> << Emit("menu_settings") >>
      [] event = "quit"              -> << Exit(0) >>
      [] event = "toggle_sidebar"    -> << Emit("menu_toggle_sidebar") >>
      [] event = "reload"            -> << Emit("menu_reload") >>
      [] event = "about"             -> << Emit("menu_about") >>
      [] OTHER                       -> << >>

----------------------------------------------------------------------------
(* Initial state                                                            *)

Init ==
    /\ pc = "setup"
    /\ debug \in BOOLEAN
    /\ hasMainWindow \in BOOLEAN
    /\ listening \in SUBSET Subscribable
    /\ g = 1
    /\ e = 1
    /\ cur = << >>
    /\ subs = << >>
    /\ menu = Nothing
    /\ failedAt = None
    /\ setMenuCalls = 0
    /\ installed = Nothing
    /\ minSizeCalls = << >>
    /\ windowMinSize = Nothing
    /\ calls = << >>
    /\ exitRequests = << >>
    /\ received = << >>

----------------------------------------------------------------------------
(* Setup: the closure passed to Builder::setup in run()                     *)

(* An Err propagated by `?`: setup returns it, the locals are dropped and
   launch is aborted by run()'s expect. *)
Propagate(step) ==
    /\ pc' = "setup_failed"
    /\ failedAt' = step
    /\ g' = 1
    /\ e' = 1
    /\ cur' = << >>
    /\ subs' = << >>

(* if cfg!(debug_assertions) { app.handle().plugin(...)?; } *)
PluginLog ==
    /\ pc = "setup"
    /\ \E ok \in BOOLEAN :
         IF debug /\ ~ok
         THEN Propagate("plugin")
         ELSE /\ pc' = "create_app_menu"
              /\ UNCHANGED << failedAt, builder >>
    /\ UNCHANGED << env, menu, setMenuCalls, installed, window, runtime >>

(* The builder call create_app_menu is about to make. *)
NextEntry == MenuLayout[g].entries[e]

InSubmenu ==
    /\ pc = "create_app_menu"
    /\ g <= Len(MenuLayout)
    /\ e <= Len(MenuLayout[g].entries)

(* .item(&MenuItemBuilder::new(..).id(..).accelerator(..).build(app)?) *)
BuildMenuItem ==
    /\ InSubmenu
    /\ NextEntry.kind = "item"
    /\ \E ok \in BOOLEAN :
         IF ok
         THEN /\ cur' = Append(cur, NextEntry)
              /\ e' = e + 1
              /\ UNCHANGED << pc, failedAt, g, subs >>
         ELSE Propagate("create_app_menu")
    /\ UNCHANGED << env, menu, setMenuCalls, installed, window, runtime >>

(* .separator() *)
AddSeparator ==
    /\ InSubmenu
    /\ NextEntry.kind = "separator"
    /\ cur' = Append(cur, Separator)
    /\ e' = e + 1
    /\ UNCHANGED << pc, failedAt, g, subs >>
    /\ UNCHANGED << env, menu, setMenuCalls, installed, window, runtime >>

(* A variant of the submenu build that drops a failed submenu and carries on
   with the next one. *)
BuildSubmenuSkipFailed ==
    /\ pc = "create_app_menu"
    /\ g <= Len(MenuLayout)
    /\ e > Len(MenuLayout[g].entries)
    /\ \E ok \in BOOLEAN :
         /\ subs' = IF ok
                    THEN Append(subs, [label |-> MenuLayout[g].label, items |-> cur])
                    ELSE subs
         /\ g' = g + 1
         /\ e' = 1
         /\ cur' = << >>
         /\ UNCHANGED << pc, failedAt >>
    /\ UNCHANGED << env, menu, setMenuCalls, installed, window, runtime >>

(* SubmenuBuilder::build()? *)
BuildSubmenu ==
    /\ pc = "create_app_menu"
    /\ g <= Len(MenuLayout)
    /\ e > Len(MenuLayout[g].entries)
    /\ \E ok \in BOOLEAN :
         IF ok
         THEN /\ subs' = Append(subs, [label |-> MenuLayout[g].label, items |-> cur])
              /\ g' = g + 1
              /\ e' = 1
              /\ cur' = << >>
              /\ UNCHANGED << pc, failedAt >>
         ELSE Propagate("create_app_menu")
    /\ UNCHANGED << env, menu, setMenuCalls, installed, window, runtime >>

(* MenuBuilder::new(app).item(..) x6 .build()?; Ok(menu) *)
BuildMenu ==
    /\ pc = "create_app_menu"
    /\ g > Len(MenuLayout)
    /\ \E ok \in BOOLEAN :
         IF ok
         THEN /\ menu' = Some(subs)
              /\ pc' = "set_menu"
              /\ g' = 1
              /\ e' = 1
              /\ cur' = << >>
              /\ subs' = << >>
              /\ UNCHANGED failedAt
         ELSE /\ Propagate("create_app_menu")
              /\ UNCHANGED menu
    /\ UNCHANGED << env, setMenuCalls, installed, window, runtime >>

(* A variant of the installation whose error is swallowed instead of
   propagated. *)
SetMenuSwallowError ==
    /\ pc = "set_menu"
    /\ setMenuCalls' = setMenuCalls + 1
    /\ \E ok \in BOOLEAN :
         IF ok
         THEN /\ installed' = menu
              /\ pc' = "min_size"
              /\ UNCHANGED failedAt
         ELSE /\ installed' \in {installed, menu}
              /\ pc' = "min_size"
              /\ failedAt' = "set_menu"
    /\ UNCHANGED << env, builder, menu, window, runtime >>

(* app.set_menu(menu)?  A rejected call may or may not have taken the menu. *)
SetMenu ==
    /\ pc = "set_menu"
    /\ setMenuCalls' = setMenuCalls + 1
    /\ \E ok \in BOOLEAN :
         IF ok
         THEN /\ installed' = menu
              /\ pc' = "min_size"
              /\ UNCHANGED << failedAt, builder >>
         ELSE /\ installed' \in {installed, menu}
              /\ Propagate("set_menu")
    /\ UNCHANGED << env, menu, window, runtime >>

(* if let Some(window) = app.get_webview_window("main")
     { let _ = window.set_min_size(Some(LogicalSize::new(800.0, 600.0))); }
   Ok(())  *)
SetMinSize ==
    /\ pc = "min_size"
    /\ IF hasMainWindow
       THEN /\ minSizeCalls' = Append(minSizeCalls, [width |-> MinWidth, height |-> MinHeight])
            /\ \E ok \in BOOLEAN :
                 windowMinSize' = IF ok THEN Some([width |-> MinWidth, height |-> MinHeight])
                                  ELSE windowMinSize
       ELSE UNCHANGED window
    /\ pc' = "running"
    /\ UNCHANGED << env, builder, menu, failedAt, setMenuCalls, installed, runtime >>

----------------------------------------------------------------------------
(* Running: on_menu_event                                                   *)

(* What executing the calls of one arm can come to: all of them return, or
   an emit returns Err and its unwrap panics. *)
Outcomes(effs) ==
    { [performed |-> effs, panicked |-> FALSE] } \cup
    { [performed |-> SubSeq(effs, 1, i), panicked |-> TRUE] :
        i \in { j \in 1..Len(effs) : effs[j].kind = "emit" } }

(* The emits of an outcome that returned Ok. *)
OkEmits(o) ==
    SelectSeq(IF o.panicked THEN SubSeq(o.performed, 1, Len(o.performed) - 1)
              ELSE o.performed,
              LAMBDA x : x.kind = "emit")

(* The emit of an outcome that returned Err, if any. *)
ErrEmits(o) ==
    IF o.panicked THEN << o.performed[Len(o.performed)] >> ELSE << >>

(* What the subscriber gets of a sequence of emits: the event channel hands
   an event, with its payload, once to a subscriber listening on its name and
   drops it otherwise (fire-and-forget broadcast of the event contract). *)
Deliver(emits) ==
    [ i \in 1..Len(SelectSeq(emits, LAMBDA x : x.name \in listening)) |->
        [name |-> SelectSeq(emits, LAMBDA x : x.name \in listening)[i].name,
         payload |-> SelectSeq(emits, LAMBDA x : x.name \in listening)[i].payload] ]

(* The status codes of the exit calls among the performed calls. *)
ExitCodes(effs) ==
    [ i \in 1..Len(SelectSeq(effs, LAMBDA x : x.kind = "exit")) |->
        SelectSeq(effs, LAMBDA x : x.kind = "exit")[i].code ]

(* .on_menu_event(|app, event| menu::handle_menu_event(app, event.id().as_ref()))
   for a selection of an item of the installed menu or a foreign item. An
   event whose emit returned Err may or may not have reached the subscriber. *)
Dispatch(id) ==
    /\ pc = "running"
    /\ Len(calls) < MaxCalls
    /\ \E o \in Outcomes(handle_menu_event(id)), late \in BOOLEAN :
         /\ late => o.panicked
         /\ calls' = Append(calls,
                [id |-> id,
                 performed |-> o.performed,
                 result |-> IF o.panicked THEN "panicked" ELSE "returned",
                 delivered |-> Deliver(OkEmits(o))
                                 \o (IF late THEN Deliver(ErrEmits(o)) ELSE << >>)])
         /\ received' = received \o Deliver(OkEmits(o))
                                 \o (IF late THEN Deliver(ErrEmits(o)) ELSE << >>)
         /\ exitRequests' = exitRequests \o ExitCodes(o.performed)
         /\ pc' = IF o.panicked THEN "panicked" ELSE pc
    /\ UNCHANGED << env, builder, menu, failedAt, setMenuCalls, installed, window >>

(* The runtime acts on a pending exit request: the process ends. *)
ExitTakesEffect ==
    /\ pc = "running"
    /\ exitRequests # << >>
    /\ pc' = "exited"
    /\ UNCHANGED << env, builder, menu, failedAt, setMenuCalls, installed, window, runtime >>

(* The identifiers the runtime can yield: those of the installed menu's items
   and the foreign ones. *)
Selectable ==
    (IF installed = Nothing THEN {} ELSE ActionableIds(installed[1])) \cup ForeignIds

Next ==
    \/ PluginLog
    \/ BuildMenuItem
    \/ AddSeparator
    \/ BuildSubmenu
    \/ BuildMenu
    \/ SetMenu
    \/ SetMinSize
    \/ \E id \in Selectable : Dispatch(id)
    \/ ExitTakesEffect

Spec == Init /\ [][Next]_vars

----------------------------------------------------------------------------
(* Properties                                                               *)

(* The tree a complete run of create_app_menu yields. *)
CompleteTree ==
    [ i \in 1..Len(MenuLayout) |->
        [label |-> MenuLayout[i].label, items |-> MenuLayout[i].entries] ]

GroupLabels == << "Documents", "Categories", "File", "Edit", "View", "Help" >>

MenuIds ==
    {"new_document", "search", "new_category", "manage_categories",
     "export_archive", "import_archive", "settings", "quit", "undo", "redo",
     "cut", "copy", "paste", "toggle_sidebar", "reload", "about"}

MatchedIds ==
    {"new_document", "search", "new_category", "manage_categories",
     "export_archive", "import_archive", "settings", "quit",
     "toggle_sidebar", "reload", "about"}

EventNames ==
    {"menu_new_document", "menu_search", "menu_new_category",
     "menu_manage_categories", "menu_export_archive", "menu_import_archive",
     "menu_settings", "menu_toggle_sidebar", "menu_reload", "menu_about"}

EmitsOf(effs) == SelectSeq(effs, LAMBDA x : x.kind = "emit")
ExitsOf(effs) == SelectSeq(effs, LAMBDA x : x.kind = "exit")

(* The step is one call of handle_menu_event. *)
IsCall == Len(calls') = Len(calls) + 1
NewCall == calls'[Len(calls')]

Started == pc \in {"running", "exited", "panicked"}
SetupOver == Started \/ pc = "setup_failed"

(* C1: every actionable identifier of the installed menu tree is resolved by
   handle_menu_event to an emit or an exit, never to the default arm. *)
C1_ExhaustiveDispatch ==
    installed # Nothing =>
        /\ ActionableIds(installed[1]) = MenuIds
        /\ \A id \in ActionableIds(installed[1]) : handle_menu_event(id) # << >>

(* C2: a failing emit is never surfaced: every call returns normally and the
   process goes on dispatching. *)
C2_EmitFailureNotSurfaced ==
    /\ pc # "panicked"
    /\ \A i \in 1..Len(calls) : calls[i].result = "returned"

(* C3: in the tree create_app_menu returns, and in the tree installed, no two
   actionable items share an identifier and no identifier is empty. *)
C3_UniqueIds ==
    \A t \in {menu, installed} :
        t # Nothing =>
            /\ Cardinality(ActionableIds(t[1])) = Len(ActionableItems(t[1]))
            /\ \A i \in 1..Len(ActionableItems(t[1])) : ActionableItems(t[1])[i].id # ""

C3_Witness ==
    /\ installed # Nothing
    /\ Len(installed[1]) = 6
    /\ Len(ActionableItems(installed[1])) = 16

(* C4: construction is all-or-nothing: a failed build makes create_app_menu
   return an error that setup propagates without calling set_menu, and the
   installed menu is always absent or the complete six-group tree. *)
C4_AllOrNothing ==
    /\ installed = Nothing \/
         /\ installed = Some(CompleteTree)
         /\ Len(installed[1]) = 6
         /\ [ i \in 1..6 |-> installed[1][i].label ] = GroupLabels
         /\ ActionableIds(installed[1]) = MenuIds
    /\ menu # Nothing => menu = Some(CompleteTree)
    /\ setMenuCalls > 0 => menu = Some(CompleteTree)
    /\ failedAt = "create_app_menu" =>
         /\ pc = "setup_failed"
         /\ menu = Nothing
         /\ setMenuCalls = 0
         /\ installed = Nothing

C4_Witness ==
    /\ failedAt = "create_app_menu"
    /\ pc = "setup_failed"
    /\ installed = Nothing
    /\ setMenuCalls = 0

(* C5: a call with "quit" makes exactly one exit request, with status 0, and
   emits and delivers nothing; once the exit has taken effect no call is
   made and nothing is delivered. *)
C5_ExitTerminality ==
    [][ /\ (IsCall /\ NewCall.id = "quit") =>
              /\ exitRequests' = Append(exitRequests, 0)
              /\ EmitsOf(NewCall.performed) = << >>
              /\ NewCall.result = "returned"
              /\ received' = received
        /\ pc = "exited" => (calls' = calls /\ received' = received /\ pc' = pc)
      ]_vars

C5_Witness ==
    /\ pc = "exited"
    /\ exitRequests = << 0 >>
    /\ \E i \in 1..Len(calls) : calls[i].id = "quit"

(* C6: a call with an identifier the handler does not match emits nothing,
   requests no exit, delivers nothing and returns normally. *)
C6_UnknownIdSafe ==
    [][ (IsCall /\ NewCall.id \notin MatchedIds) =>
            /\ NewCall.performed = << >>
            /\ NewCall.result = "returned"
            /\ NewCall.delivered = << >>
            /\ exitRequests' = exitRequests
            /\ received' = received
            /\ pc' = pc
      ]_vars

C6_Witness ==
    /\ Len(calls) = 2
    /\ calls[1].id = "not_a_real_id"
    /\ calls[2].id = ""
    /\ pc = "running"
    /\ received = << >>
    /\ exitRequests = << >>

(* C7: every call emits at most one event, with the empty payload and, for
   identifier X, the name menu_X; the names the handler can emit over all
   identifiers are exactly the ten of the event contract. *)
C7_EventContract ==
    /\ \A i \in 1..Len(calls) :
         /\ Len(EmitsOf(calls[i].performed)) <= 1
         /\ \A k \in 1..Len(EmitsOf(calls[i].performed)) :
              /\ EmitsOf(calls[i].performed)[k].payload = Unit
              /\ EmitsOf(calls[i].performed)[k].name = "menu_" \o calls[i].id
              /\ EmitsOf(calls[i].performed)[k].name \in EventNames
    /\ { ev.name : ev \in UNION { { EmitsOf(handle_menu_event(id))[k] :
                                      k \in 1..Len(EmitsOf(handle_menu_event(id))) } :
                                    id \in MenuIds \cup ForeignIds } } = EventNames

C7_Witness ==
    /\ Len(calls) = 2
    /\ calls[1].id = "settings"
    /\ calls[1].performed = << Emit("menu_settings") >>
    /\ calls[2].id = "about"
    /\ calls[2].performed = << Emit("menu_about") >>

(* All emits made so far, oldest first. *)
RECURSIVE EmitLog(_)
EmitLog(cs) ==
    IF cs = << >> THEN << >>
    ELSE EmitsOf(Head(cs).performed) \o EmitLog(Tail(cs))

(* C8: in a sequence of calls without "quit", what a call does depends on its
   identifier alone, and n calls with "new_document" make exactly n emits,
   all named menu_new_document. *)
C8_Stateless ==
    (\A i \in 1..Len(calls) : calls[i].id # "quit") =>
        /\ \A i, j \in 1..Len(calls) :
             calls[i].id = calls[j].id => calls[i].performed = calls[j].performed
        /\ Len(SelectSeq(EmitLog(calls), LAMBDA x : x.name = "menu_new_document"))
             = Len(SelectSeq(calls, LAMBDA c : c.id = "new_document"))

C8_Witness ==
    /\ Len(calls) = 2
    /\ calls[1].id = "new_document"
    /\ calls[2].id = "new_document"
    /\ EmitLog(calls) = << Emit("menu_new_document"), Emit("menu_new_document") >>

(* The item labelled "Search Documents" sits in Documents, and only there,
   with identifier search and accelerator CmdOrCtrl+F. *)
SearchItemPlaced(tree) ==
    \A gi \in 1..Len(tree) :
        /\ tree[gi].label = "Documents" =>
             \E k \in 1..Len(tree[gi].items) :
                tree[gi].items[k] = Item("Search Documents", "search", "CmdOrCtrl+F")
        /\ \A k \in 1..Len(tree[gi].items) :
             (tree[gi].items[k].kind = "item"
                /\ tree[gi].items[k].label = "Search Documents") =>
                    /\ tree[gi].label = "Documents"
                    /\ tree[gi].items[k].id = "search"
                    /\ tree[gi].items[k].accelerator = "CmdOrCtrl+F"

SearchDelivery == << [name |-> "menu_search", payload |-> Unit] >>

(* C9: in the installed tree the item labelled "Search Documents" sits in
   Documents with identifier search and accelerator CmdOrCtrl+F, and every
   call with "search" delivers menu_search exactly once, with the empty
   payload, to a subscriber listening on it. *)
C9_SearchAlwaysDelivered ==
    /\ installed # Nothing =>
         (SearchItemPlaced(installed[1]) /\ installed[1][1].label = "Documents")
    /\ \A i \in 1..Len(calls) :
         (calls[i].id = "search" /\ "menu_search" \in listening) =>
             calls[i].delivered = SearchDelivery

MinSize == [width |-> MinWidth, height |-> MinHeight]

(* C10, as claimed: with a main window, the minimum size is applied exactly
   once by the end of setup whether or not menu construction and
   installation succeeded. *)
C10_MinSizeIndependentOfMenu ==
    (SetupOver /\ hasMainWindow /\ failedAt # "plugin") => Len(minSizeCalls) = 1

(* C10, amended: the 800x600 minimum size is requested at most once, as the
   last step of setup, exactly when a main window exists and menu
   construction and installation both succeeded; a failure of either makes
   setup return before the request. *)
C10_MinSizeAfterMenuInstalled ==
    /\ Len(minSizeCalls) <= 1
    /\ \A i \in 1..Len(minSizeCalls) : minSizeCalls[i] = MinSize
    /\ windowMinSize \in {Nothing, Some(MinSize)}
    /\ Len(minSizeCalls) = 1 <=> (Started /\ hasMainWindow)
    /\ Started => (failedAt = None /\ setMenuCalls = 1 /\ installed = Some(CompleteTree))
    /\ failedAt \in {"create_app_menu", "set_menu"} =>
         (pc = "setup_failed" /\ minSizeCalls = << >> /\ windowMinSize = Nothing)

C10_Witness ==
    /\ pc = "running"
    /\ hasMainWindow
    /\ minSizeCalls = << MinSize >>
    /\ windowMinSize = Some(MinSize)
    /\ installed = Some(CompleteTree)

====
